---------------------------- MODULE Spec2Model ----------------------------
(***************************************************************************)
(* scripts/getfw.py: the firmware gathering pipeline.                      *)
(*                                                                         *)
(* The module-level registry `sources` is constructed (each constructor    *)
(* normalises its file map), main() runs gather() over the registry (each  *)
(* source's get() copies or downloads its files one by one into the output *)
(* tree) and then patch() over the patch list; any exception unwinds to    *)
(* the top level and ends the process.                                     *)
(*                                                                         *)
(* Paths are strings with "/" separators, relative to args.path_out for    *)
(* the output tree and to args.path_wdsfr for the driver store.  A Python  *)
(* value of a file-map declaration is [type, items]: items is the list's   *)
(* elements, or the dict's <<key, value>> pairs in insertion order.        *)
(***************************************************************************)
EXTENDS Integers, Sequences, FiniteSets, TLC

----------------------------------------------------------------------------
(* Program constants *)

\* Mutant of ATH10K_BOARD_FILE: a board file no source gathers.
ATH10K_BOARD_FILE_other == "bdwlan.b59"

ATH10K_BOARD_FILE == "bdwlan.b58"
ATH10K_BOARD_NAME == "bus=snoc,qmi-board-id=ff,qmi-chip-id=30224"
PATH_PLATFORM == "XIAOMI/BOOK124"
PATH_VENUS == "venus-5.2"

\* Logger.log_pfx: one prefix per nesting level 0, 1, 2.
log_pfx == << "==> ", " -> ", "    " >>

List(s) == [type |-> "list", items |-> s]
Dict(s) == [type |-> "dict", items |-> s]

sources == <<
    \* line 219
    [cls |-> "DownloadFirmware", name |-> "pd-maps",
     target_directory |-> "qcom/XIAOMI/BOOK124",
     source_url |-> "https://raw.githubusercontent.com/linux-surface/aarch64-firmware/main/firmware/qcom/msft/surface/pro-x-sq2",
     files |-> List(<<
        "adspr.jsn",
        "adspua.jsn",
        "cdspr.jsn",
        "charger.jsn",
        "modemr.jsn",
        "modemuw.jsn" >>)],
    \* line 229
    [cls |-> "WindowsDriverFirmware", name |-> "bluetooth",
     target_directory |-> "qca",
     source_directory |-> "qcbtfmuart8180",
     files |-> List(<<
        "crbtfw21.tlv",
        "crnv21.b3c",
        "crnv21.b44",
        "crnv21.b45",
        "crnv21.b46",
        "crnv21.b47",
        "crnv21.b71",
        "crnv21.bin" >>)],
    \* line 241
    [cls |-> "DownloadFirmware", name |-> "gpu/base",
     target_directory |-> "qcom",
     source_url |-> "https://raw.githubusercontent.com/linux-surface/aarch64-firmware/main/firmware/qcom",
     files |-> List(<<
        "a680_gmu.bin",
        "a680_sqe.fw" >>)],
    \* line 245
    [cls |-> "WindowsDriverFirmware", name |-> "gpu/vendor",
     target_directory |-> "qcom/XIAOMI/BOOK124",
     source_directory |-> "qcdx8180",
     files |-> List(<<
        "qcdxkmsuc8180.mbn",
        "qcvss8180.mbn" >>)],
    \* line 251
    [cls |-> "WindowsDriverFirmware", name |-> "wlan/vendor",
     target_directory |-> "qcom/XIAOMI/BOOK124",
     source_directory |-> "qcwlan8180",
     files |-> List(<<
        "wlanmdsp.mbn" >>)],
    \* line 254
    [cls |-> "WindowsDriverFirmware", name |-> "wlan/ath10k/board",
     target_directory |-> "ath10k/WCN3990/hw1.0/boards",
     source_directory |-> "qcwlan8180",
     files |-> List(<<
        "bdwlan.b5f",
        "bdwlan.b36",
        "bdwlan.b37",
        "bdwlan.b46",
        "bdwlan.b47",
        "bdwlan.b48",
        "bdwlan.b58",
        "bdwlan.b71",
        "bdwlan.bin",
        "bdwlanu.b5f",
        "bdwlanu.b58" >>)],
    \* line 267
    [cls |-> "DownloadFirmware", name |-> "wlan/ath10k/firmware-5",
     target_directory |-> "ath10k/WCN3990/hw1.0",
     source_url |-> "https://git.kernel.org/pub/scm/linux/kernel/git/firmware/linux-firmware.git/plain/ath10k/WCN3990/hw1.0",
     files |-> List(<<
        "firmware-5.bin" >>)],
    \* line 272
    [cls |-> "WindowsDriverFirmware", name |-> "mcfg",
     target_directory |-> "qcom/XIAOMI/BOOK124",
     source_directory |-> "mcfg_subsys_ext8180",
     files |-> Dict(<<
        <<"MCFG/mbn_hw.dig.78", "modem_pr/mcfg/configs/mcfg_hw/mbn_hw.dig">>,
        <<"MCFG/mbn_hw.txt.79", "modem_pr/mcfg/configs/mcfg_hw/mbn_hw.txt">>,
        <<"MCFG/mbn_sw.dig.221", "modem_pr/mcfg/configs/mcfg_sw/mbn_sw.dig">>,
        <<"MCFG/mbn_sw.txt.222", "modem_pr/mcfg/configs/mcfg_sw/mbn_sw.txt">>,
        <<"MCFG/mcfg_hw.mbn.10", "modem_pr/mcfg/configs/mcfg_hw/generic/common/mdm9x55/ss/mcfg_hw.mbn">>,
        <<"MCFG/mcfg_hw.mbn.11", "modem_pr/mcfg/configs/mcfg_hw/generic/common/mdm9x55_fusion/7+7_mode/dr_dsds/mcfg_hw.mbn">>,
        <<"MCFG/mcfg_hw.mbn.12", "modem_pr/mcfg/configs/mcfg_hw/generic/common/mdm9x55_fusion/7+7_mode/sr_dsds/mcfg_hw.mbn">>,
        <<"MCFG/mcfg_hw.mbn.13", "modem_pr/mcfg/configs/mcfg_hw/generic/common/mdm9x55_fusion/ss/mcfg_hw.mbn">>,
        <<"MCFG/mcfg_hw.mbn.14", "modem_pr/mcfg/configs/mcfg_hw/generic/common/msm8998/cmcc_subsidized/sr_dsds/mcfg_hw.mbn">>,
        <<"MCFG/mcfg_hw.mbn.15", "modem_pr/mcfg/configs/mcfg_hw/generic/common/msm8998/la/7+7_mode/dr_dsds/mcfg_hw.mbn">>,
        <<"MCFG/mcfg_hw.mbn.16", "modem_pr/mcfg/configs/mcfg_hw/generic/common/msm8998/la/7+7_mode/sr_dsds/mcfg_hw.mbn">>,
        <<"MCFG/mcfg_hw.mbn.17", "modem_pr/mcfg/configs/mcfg_hw/generic/common/msm8998/la/ss/mcfg_hw.mbn">>,
        <<"MCFG/mcfg_hw.mbn.18", "modem_pr/mcfg/configs/mcfg_hw/generic/common/msm8998/wd/7+7_mode/sr_dsds/mcfg_hw.mbn">>,
        <<"MCFG/mcfg_hw.mbn.19", "modem_pr/mcfg/configs/mcfg_hw/generic/common/msm8998/wd/ss/mcfg_hw.mbn">>,
        <<"MCFG/mcfg_hw.mbn.1", "modem_pr/mcfg/configs/mcfg_hw/generic/common/default/5g_default/mcfg_hw.mbn">>,
        <<"MCFG/mcfg_hw.mbn.20", "modem_pr/mcfg/configs/mcfg_hw/generic/common/msm8998/wp8/7+7_mode/dr_dsds/mcfg_hw.mbn">>,
        <<"MCFG/mcfg_hw.mbn.21", "modem_pr/mcfg/configs/mcfg_hw/generic/common/msm8998/wp8/7+7_mode/sr_dsds/mcfg_hw.mbn">>,
        <<"MCFG/mcfg_hw.mbn.22", "modem_pr/mcfg/configs/mcfg_hw/generic/common/msm8998/wp8/ss/mcfg_hw.mbn">>,
        <<"MCFG/mcfg_hw.mbn.23", "modem_pr/mcfg/configs/mcfg_hw/generic/common/sc8180x/cmcc_subsidized/sr_dsds/mcfg_hw.mbn">>,
        <<"MCFG/mcfg_hw.mbn.24", "modem_pr/mcfg/configs/mcfg_hw/generic/common/sc8180x/la/7+7_mode/sr_dsds/mcfg_hw.mbn">>,
        <<"MCFG/mcfg_hw.mbn.25", "modem_pr/mcfg/configs/mcfg_hw/generic/common/sc8180x/la/dsds/mcfg_hw.mbn">>,
        <<"MCFG/mcfg_hw.mbn.26", "modem_pr/mcfg/configs/mcfg_hw/generic/common/sc8180x/la/ss/mcfg_hw.mbn">>,
        <<"MCFG/mcfg_hw.mbn.27", "modem_pr/mcfg/configs/mcfg_hw/generic/common/sc8180x/wd/7+7_mode/sr_dsds/mcfg_hw.mbn">>,
        <<"MCFG/mcfg_hw.mbn.28", "modem_pr/mcfg/configs/mcfg_hw/generic/common/sc8180x/wd/dssa/mcfg_hw.mbn">>,
        <<"MCFG/mcfg_hw.mbn.29", "modem_pr/mcfg/configs/mcfg_hw/generic/common/sc8180x/wd/ss/mcfg_hw.mbn">>,
        <<"MCFG/mcfg_hw.mbn.2", "modem_pr/mcfg/configs/mcfg_hw/generic/common/default/cust_default/mcfg_hw.mbn">>,
        <<"MCFG/mcfg_hw.mbn.30", "modem_pr/mcfg/configs/mcfg_hw/generic/common/sc8180x/wp8/7+7_mode/sr_dsds/mcfg_hw.mbn">>,
        <<"MCFG/mcfg_hw.mbn.31", "modem_pr/mcfg/configs/mcfg_hw/generic/common/sc8180x/wp8/ss/mcfg_hw.mbn">>,
        <<"MCFG/mcfg_hw.mbn.32", "modem_pr/mcfg/configs/mcfg_hw/generic/common/sdm1000/cmcc_subsidized/sr_dsds/mcfg_hw.mbn">>,
        <<"MCFG/mcfg_hw.mbn.33", "modem_pr/mcfg/configs/mcfg_hw/generic/common/sdm1000/la/7+7_mode/sr_dsds/mcfg_hw.mbn">>,
        <<"MCFG/mcfg_hw.mbn.34", "modem_pr/mcfg/configs/mcfg_hw/generic/common/sdm1000/la/ss/mcfg_hw.mbn">>,
        <<"MCFG/mcfg_hw.mbn.35", "modem_pr/mcfg/configs/mcfg_hw/generic/common/sdm1000/wd/7+7_mode/sr_dsds/mcfg_hw.mbn">>,
        <<"MCFG/mcfg_hw.mbn.36", "modem_pr/mcfg/configs/mcfg_hw/generic/common/sdm1000/wd/dssa/mcfg_hw.mbn">>,
        <<"MCFG/mcfg_hw.mbn.37", "modem_pr/mcfg/configs/mcfg_hw/generic/common/sdm1000/wd/ss/mcfg_hw.mbn">>,
        <<"MCFG/mcfg_hw.mbn.38", "modem_pr/mcfg/configs/mcfg_hw/generic/common/sdm1000/wp8/7+7_mode/sr_dsds/mcfg_hw.mbn">>,
        <<"MCFG/mcfg_hw.mbn.39", "modem_pr/mcfg/configs/mcfg_hw/generic/common/sdm1000/wp8/ss/mcfg_hw.mbn">>,
        <<"MCFG/mcfg_hw.mbn.3", "modem_pr/mcfg/configs/mcfg_hw/generic/common/default/sc8180x.gen.prod/5g_default/mcfg_hw.mbn">>,
        <<"MCFG/mcfg_hw.mbn.40", "modem_pr/mcfg/configs/mcfg_hw/generic/common/sdm660/cmcc_subsidized/sr_dsds/mcfg_hw.mbn">>,
        <<"MCFG/mcfg_hw.mbn.41", "modem_pr/mcfg/configs/mcfg_hw/generic/common/sdm660/la/7+7_mode/sr_dsds/mcfg_hw.mbn">>,
        <<"MCFG/mcfg_hw.mbn.42", "modem_pr/mcfg/configs/mcfg_hw/generic/common/sdm660/la/ss/mcfg_hw.mbn">>,
        <<"MCFG/mcfg_hw.mbn.43", "modem_pr/mcfg/configs/mcfg_hw/generic/common/sdm670/cmcc_subsidized/sr_dsds/mcfg_hw.mbn">>,
        <<"MCFG/mcfg_hw.mbn.44", "modem_pr/mcfg/configs/mcfg_hw/generic/common/sdm670/la/7+7_mode/sr_dsds/mcfg_hw.mbn">>,
        <<"MCFG/mcfg_hw.mbn.45", "modem_pr/mcfg/configs/mcfg_hw/generic/common/sdm670/la/ss/mcfg_hw.mbn">>,
        <<"MCFG/mcfg_hw.mbn.46", "modem_pr/mcfg/configs/mcfg_hw/generic/common/sdm845/cmcc_subsidized/sr_dsds/mcfg_hw.mbn">>,
        <<"MCFG/mcfg_hw.mbn.47", "modem_pr/mcfg/configs/mcfg_hw/generic/common/sdm845/la/7+7_mode/sr_dsds/mcfg_hw.mbn">>,
        <<"MCFG/mcfg_hw.mbn.48", "modem_pr/mcfg/configs/mcfg_hw/generic/common/sdm845/la/ss/mcfg_hw.mbn">>,
        <<"MCFG/mcfg_hw.mbn.49", "modem_pr/mcfg/configs/mcfg_hw/generic/common/sdm845/wd/7+7_mode/sr_dsds/mcfg_hw.mbn">>,
        <<"MCFG/mcfg_hw.mbn.4", "modem_pr/mcfg/configs/mcfg_hw/generic/common/default/sc8180x.gen.prod/cust_default/mcfg_hw.mbn">>,
        <<"MCFG/mcfg_hw.mbn.50", "modem_pr/mcfg/configs/mcfg_hw/generic/common/sdm845/wd/ss/mcfg_hw.mbn">>,
        <<"MCFG/mcfg_hw.mbn.51", "modem_pr/mcfg/configs/mcfg_hw/generic/common/sdm845/wp8/7+7_mode/sr_dsds/mcfg_hw.mbn">>,
        <<"MCFG/mcfg_hw.mbn.52", "modem_pr/mcfg/configs/mcfg_hw/generic/common/sdm845/wp8/ss/mcfg_hw.mbn">>,
        <<"MCFG/mcfg_hw.mbn.53", "modem_pr/mcfg/configs/mcfg_hw/generic/common/sdm855/cmcc_subsidized/sr_dsds/mcfg_hw.mbn">>,
        <<"MCFG/mcfg_hw.mbn.54", "modem_pr/mcfg/configs/mcfg_hw/generic/common/sdm855/la/7+7_mode/sr_dsds/mcfg_hw.mbn">>,
        <<"MCFG/mcfg_hw.mbn.55", "modem_pr/mcfg/configs/mcfg_hw/generic/common/sdm855/la/ss/mcfg_hw.mbn">>,
        <<"MCFG/mcfg_hw.mbn.56", "modem_pr/mcfg/configs/mcfg_hw/generic/common/sdm855/wd/7+7_mode/sr_dsds/mcfg_hw.mbn">>,
        <<"MCFG/mcfg_hw.mbn.57", "modem_pr/mcfg/configs/mcfg_hw/generic/common/sdm855/wd/ss/mcfg_hw.mbn">>,
        <<"MCFG/mcfg_hw.mbn.58", "modem_pr/mcfg/configs/mcfg_hw/generic/common/sdm855/wp8/7+7_mode/sr_dsds/mcfg_hw.mbn">>,
        <<"MCFG/mcfg_hw.mbn.59", "modem_pr/mcfg/configs/mcfg_hw/generic/common/sdm855/wp8/ss/mcfg_hw.mbn">>,
        <<"MCFG/mcfg_hw.mbn.5", "modem_pr/mcfg/configs/mcfg_hw/generic/common/default/sc8180x.gen.prod/default/mcfg_hw.mbn">>,
        <<"MCFG/mcfg_hw.mbn.60", "modem_pr/mcfg/configs/mcfg_hw/generic/common/sdx20m_fusion/7+7_mode/dr_dsds/mcfg_hw.mbn">>,
        <<"MCFG/mcfg_hw.mbn.61", "modem_pr/mcfg/configs/mcfg_hw/generic/common/sdx20m_fusion/7+7_mode/sr_dsds/mcfg_hw.mbn">>,
        <<"MCFG/mcfg_hw.mbn.62", "modem_pr/mcfg/configs/mcfg_hw/generic/common/sdx20m_fusion/ss/mcfg_hw.mbn">>,
        <<"MCFG/mcfg_hw.mbn.63", "modem_pr/mcfg/configs/mcfg_hw/generic/common/sdx20/7+7_mode/sr_dsds/mcfg_hw.mbn">>,
        <<"MCFG/mcfg_hw.mbn.64", "modem_pr/mcfg/configs/mcfg_hw/generic/common/sdx20/ss/mcfg_hw.mbn">>,
        <<"MCFG/mcfg_hw.mbn.65", "modem_pr/mcfg/configs/mcfg_hw/generic/common/sdx24/7+7_mode/sr_dsds/mcfg_hw.mbn">>,
        <<"MCFG/mcfg_hw.mbn.66", "modem_pr/mcfg/configs/mcfg_hw/generic/common/sdx24/ss/mcfg_hw.mbn">>,
        <<"MCFG/mcfg_hw.mbn.67", "modem_pr/mcfg/configs/mcfg_hw/generic/common/sdx24_fusion/7+7_mode/sr_dsds/mcfg_hw.mbn">>,
        <<"MCFG/mcfg_hw.mbn.68", "modem_pr/mcfg/configs/mcfg_hw/generic/common/sdx24_fusion/ss/mcfg_hw.mbn">>,
        <<"MCFG/mcfg_hw.mbn.69", "modem_pr/mcfg/configs/mcfg_hw/generic/common/sm8150/cmcc_subsidized/sr_dsds/mcfg_hw.mbn">>,
        <<"MCFG/mcfg_hw.mbn.6", "modem_pr/mcfg/configs/mcfg_hw/generic/common/default/sc8180x.genimss.prod/default/mcfg_hw.mbn">>,
        <<"MCFG/mcfg_hw.mbn.70", "modem_pr/mcfg/configs/mcfg_hw/generic/common/sm8150/la/7+7_mode/sr_dsds/mcfg_hw.mbn">>,
        <<"MCFG/mcfg_hw.mbn.71", "modem_pr/mcfg/configs/mcfg_hw/generic/common/sm8150/la/dsds/mcfg_hw.mbn">>,
        <<"MCFG/mcfg_hw.mbn.72", "modem_pr/mcfg/configs/mcfg_hw/generic/common/sm8150/la/ss/mcfg_hw.mbn">>,
        <<"MCFG/mcfg_hw.mbn.73", "modem_pr/mcfg/configs/mcfg_hw/generic/common/sm8150/la/ss_apq_only/mcfg_hw.mbn">>,
        <<"MCFG/mcfg_hw.mbn.74", "modem_pr/mcfg/configs/mcfg_hw/generic/common/sm8150/wd/7+7_mode/sr_dsds/mcfg_hw.mbn">>,
        <<"MCFG/mcfg_hw.mbn.75", "modem_pr/mcfg/configs/mcfg_hw/generic/common/sm8150/wd/ss/mcfg_hw.mbn">>,
        <<"MCFG/mcfg_hw.mbn.76", "modem_pr/mcfg/configs/mcfg_hw/generic/common/sm8150/wp8/7+7_mode/sr_dsds/mcfg_hw.mbn">>,
        <<"MCFG/mcfg_hw.mbn.77", "modem_pr/mcfg/configs/mcfg_hw/generic/common/sm8150/wp8/ss/mcfg_hw.mbn">>,
        <<"MCFG/mcfg_hw.mbn.7", "modem_pr/mcfg/configs/mcfg_hw/generic/common/default/sc8180x.genmd.prod/default/mcfg_hw.mbn">>,
        <<"MCFG/mcfg_hw.mbn.8", "modem_pr/mcfg/configs/mcfg_hw/generic/common/mdm9x55/7+7_mode/dr_dsds/mcfg_hw.mbn">>,
        <<"MCFG/mcfg_hw.mbn.9", "modem_pr/mcfg/configs/mcfg_hw/generic/common/mdm9x55/7+7_mode/sr_dsds/mcfg_hw.mbn">>,
        <<"MCFG/mcfg_sw.mbn.100", "modem_pr/mcfg/configs/mcfg_sw/generic/china/ct/commercial/openmkt/mcfg_sw.mbn">>,
        <<"MCFG/mcfg_sw.mbn.101", "modem_pr/mcfg/configs/mcfg_sw/generic/china/ct/commercial/volte_openmkt/mcfg_sw.mbn">>,
        <<"MCFG/mcfg_sw.mbn.102", "modem_pr/mcfg/configs/mcfg_sw/generic/china/ct/lab/cta/mcfg_sw.mbn">>,
        <<"MCFG/mcfg_sw.mbn.103", "modem_pr/mcfg/configs/mcfg_sw/generic/china/ct/lab/eps_only_volte_conf/mcfg_sw.mbn">>,
        <<"MCFG/mcfg_sw.mbn.104", "modem_pr/mcfg/configs/mcfg_sw/generic/china/ct/lab/noapn_vo_conf/mcfg_sw.mbn">>,
        <<"MCFG/mcfg_sw.mbn.105", "modem_pr/mcfg/configs/mcfg_sw/generic/china/ct/lab/test/mcfg_sw.mbn">>,
        <<"MCFG/mcfg_sw.mbn.106", "modem_pr/mcfg/configs/mcfg_sw/generic/china/ct/lab/test_eps_only/mcfg_sw.mbn">>,
        <<"MCFG/mcfg_sw.mbn.107", "modem_pr/mcfg/configs/mcfg_sw/generic/china/ct/lab/test_no_apn/mcfg_sw.mbn">>,
        <<"MCFG/mcfg_sw.mbn.108", "modem_pr/mcfg/configs/mcfg_sw/generic/china/ct/lab/volte_conf/mcfg_sw.mbn">>,
        <<"MCFG/mcfg_sw.mbn.109", "modem_pr/mcfg/configs/mcfg_sw/generic/china/cu/commercial/openmkt/mcfg_sw.mbn">>,
        <<"MCFG/mcfg_sw.mbn.110", "modem_pr/mcfg/configs/mcfg_sw/generic/china/cu/commercial/subsidized/mcfg_sw.mbn">>,
        <<"MCFG/mcfg_sw.mbn.111", "modem_pr/mcfg/configs/mcfg_sw/generic/china/cu/commercial/volte/mcfg_sw.mbn">>,
        <<"MCFG/mcfg_sw.mbn.112", "modem_pr/mcfg/configs/mcfg_sw/generic/china/cu/lab/test/mcfg_sw.mbn">>,
        <<"MCFG/mcfg_sw.mbn.113", "modem_pr/mcfg/configs/mcfg_sw/generic/common/default/5g_default/mcfg_sw.mbn">>,
        <<"MCFG/mcfg_sw.mbn.114", "modem_pr/mcfg/configs/mcfg_sw/generic/common/default/cust_default/mcfg_sw.mbn">>,
        <<"MCFG/mcfg_sw.mbn.115", "modem_pr/mcfg/configs/mcfg_sw/generic/common/default/sc8180x.gen.prod/5g_default/mcfg_sw.mbn">>,
        <<"MCFG/mcfg_sw.mbn.116", "modem_pr/mcfg/configs/mcfg_sw/generic/common/default/sc8180x.gen.prod/cust_default/mcfg_sw.mbn">>,
        <<"MCFG/mcfg_sw.mbn.117", "modem_pr/mcfg/configs/mcfg_sw/generic/common/default/sc8180x.gen.prod/default/mcfg_sw.mbn">>,
        <<"MCFG/mcfg_sw.mbn.118", "modem_pr/mcfg/configs/mcfg_sw/generic/common/default/sc8180x.genimss.prod/default/mcfg_sw.mbn">>,
        <<"MCFG/mcfg_sw.mbn.119", "modem_pr/mcfg/configs/mcfg_sw/generic/common/default/sc8180x.genmd.prod/default/mcfg_sw.mbn">>,
        <<"MCFG/mcfg_sw.mbn.120", "modem_pr/mcfg/configs/mcfg_sw/generic/common/multimbn/multi_mbn/mcfg_sw.mbn">>,
        <<"MCFG/mcfg_sw.mbn.121", "modem_pr/mcfg/configs/mcfg_sw/generic/common/row/commercial/mcfg_sw.mbn">>,
        <<"MCFG/mcfg_sw.mbn.122", "modem_pr/mcfg/configs/mcfg_sw/generic/common/w_one/commercial/mcfg_sw.mbn">>,
        <<"MCFG/mcfg_sw.mbn.123", "modem_pr/mcfg/configs/mcfg_sw/generic/eu/bouygues/commercial/france/mcfg_sw.mbn">>,
        <<"MCFG/mcfg_sw.mbn.124", "modem_pr/mcfg/configs/mcfg_sw/generic/eu/dt/commercial/austria/mcfg_sw.mbn">>,
        <<"MCFG/mcfg_sw.mbn.125", "modem_pr/mcfg/configs/mcfg_sw/generic/eu/dt/commercial/croatia/mcfg_sw.mbn">>,
        <<"MCFG/mcfg_sw.mbn.126", "modem_pr/mcfg/configs/mcfg_sw/generic/eu/dt/commercial/cz/mcfg_sw.mbn">>,
        <<"MCFG/mcfg_sw.mbn.127", "modem_pr/mcfg/configs/mcfg_sw/generic/eu/dt/commercial/greece/mcfg_sw.mbn">>,
        <<"MCFG/mcfg_sw.mbn.128", "modem_pr/mcfg/configs/mcfg_sw/generic/eu/dt/commercial/hungary/mcfg_sw.mbn">>,
        <<"MCFG/mcfg_sw.mbn.129", "modem_pr/mcfg/configs/mcfg_sw/generic/eu/dt/commercial/nl/mcfg_sw.mbn">>,
        <<"MCFG/mcfg_sw.mbn.130", "modem_pr/mcfg/configs/mcfg_sw/generic/eu/dt/commercial/pl/mcfg_sw.mbn">>,
        <<"MCFG/mcfg_sw.mbn.131", "modem_pr/mcfg/configs/mcfg_sw/generic/eu/dt/commercial/slovakia/mcfg_sw.mbn">>,
        <<"MCFG/mcfg_sw.mbn.132", "modem_pr/mcfg/configs/mcfg_sw/generic/eu/dt/non_volte/commercial/mcfg_sw.mbn">>,
        <<"MCFG/mcfg_sw.mbn.133", "modem_pr/mcfg/configs/mcfg_sw/generic/eu/dt/volte/commercial/mcfg_sw.mbn">>,
        <<"MCFG/mcfg_sw.mbn.134", "modem_pr/mcfg/configs/mcfg_sw/generic/eu/ee/commercial/mcfg_sw.mbn">>,
        <<"MCFG/mcfg_sw.mbn.135", "modem_pr/mcfg/configs/mcfg_sw/generic/eu/elisa/commercial/fi/mcfg_sw.mbn">>,
        <<"MCFG/mcfg_sw.mbn.136", "modem_pr/mcfg/configs/mcfg_sw/generic/eu/h3g/commercial/austria/mcfg_sw.mbn">>,
        <<"MCFG/mcfg_sw.mbn.137", "modem_pr/mcfg/configs/mcfg_sw/generic/eu/h3g/commercial/denmark/mcfg_sw.mbn">>,
        <<"MCFG/mcfg_sw.mbn.138", "modem_pr/mcfg/configs/mcfg_sw/generic/eu/h3g/commercial/italy/mcfg_sw.mbn">>,
        <<"MCFG/mcfg_sw.mbn.139", "modem_pr/mcfg/configs/mcfg_sw/generic/eu/h3g/commercial/se/mcfg_sw.mbn">>,
        <<"MCFG/mcfg_sw.mbn.140", "modem_pr/mcfg/configs/mcfg_sw/generic/eu/h3g/commercial/uk/mcfg_sw.mbn">>,
        <<"MCFG/mcfg_sw.mbn.141", "modem_pr/mcfg/configs/mcfg_sw/generic/eu/orange/commercial/france/mcfg_sw.mbn">>,
        <<"MCFG/mcfg_sw.mbn.142", "modem_pr/mcfg/configs/mcfg_sw/generic/eu/orange/commercial/group_non_ims/mcfg_sw.mbn">>,
        <<"MCFG/mcfg_sw.mbn.143", "modem_pr/mcfg/configs/mcfg_sw/generic/eu/orange/commercial/poland/mcfg_sw.mbn">>,
        <<"MCFG/mcfg_sw.mbn.144", "modem_pr/mcfg/configs/mcfg_sw/generic/eu/orange/commercial/romania/mcfg_sw.mbn">>,
        <<"MCFG/mcfg_sw.mbn.145", "modem_pr/mcfg/configs/mcfg_sw/generic/eu/orange/commercial/slovakia/mcfg_sw.mbn">>,
        <<"MCFG/mcfg_sw.mbn.146", "modem_pr/mcfg/configs/mcfg_sw/generic/eu/orange/commercial/spain/mcfg_sw.mbn">>,
        <<"MCFG/mcfg_sw.mbn.147", "modem_pr/mcfg/configs/mcfg_sw/generic/eu/sfr/commercial/fr/mcfg_sw.mbn">>,
        <<"MCFG/mcfg_sw.mbn.148", "modem_pr/mcfg/configs/mcfg_sw/generic/eu/swisscom/commercial/swiss/mcfg_sw.mbn">>,
        <<"MCFG/mcfg_sw.mbn.149", "modem_pr/mcfg/configs/mcfg_sw/generic/eu/tdc/commercial/denmark/mcfg_sw.mbn">>,
        <<"MCFG/mcfg_sw.mbn.150", "modem_pr/mcfg/configs/mcfg_sw/generic/eu/tele2/commercial/nl/mcfg_sw.mbn">>,
        <<"MCFG/mcfg_sw.mbn.151", "modem_pr/mcfg/configs/mcfg_sw/generic/eu/tele2/commercial/sweden/mcfg_sw.mbn">>,
        <<"MCFG/mcfg_sw.mbn.152", "modem_pr/mcfg/configs/mcfg_sw/generic/eu/telefonica/commercial/de/mcfg_sw.mbn">>,
        <<"MCFG/mcfg_sw.mbn.153", "modem_pr/mcfg/configs/mcfg_sw/generic/eu/telefonica/commercial/uk/mcfg_sw.mbn">>,
        <<"MCFG/mcfg_sw.mbn.154", "modem_pr/mcfg/configs/mcfg_sw/generic/eu/telefonica/non_volte/spain/mcfg_sw.mbn">>,
        <<"MCFG/mcfg_sw.mbn.155", "modem_pr/mcfg/configs/mcfg_sw/generic/eu/telenor/commercial/denmark/mcfg_sw.mbn">>,
        <<"MCFG/mcfg_sw.mbn.156", "modem_pr/mcfg/configs/mcfg_sw/generic/eu/telenor/commercial/norway/mcfg_sw.mbn">>,
        <<"MCFG/mcfg_sw.mbn.157", "modem_pr/mcfg/configs/mcfg_sw/generic/eu/telia/commercial/norway/mcfg_sw.mbn">>,
        <<"MCFG/mcfg_sw.mbn.158", "modem_pr/mcfg/configs/mcfg_sw/generic/eu/telia/commercial/sweden/mcfg_sw.mbn">>,
        <<"MCFG/mcfg_sw.mbn.159", "modem_pr/mcfg/configs/mcfg_sw/generic/eu/tim/commercial/italy/mcfg_sw.mbn">>,
        <<"MCFG/mcfg_sw.mbn.160", "modem_pr/mcfg/configs/mcfg_sw/generic/eu/vodafone/commercial/hungary/mcfg_sw.mbn">>,
        <<"MCFG/mcfg_sw.mbn.161", "modem_pr/mcfg/configs/mcfg_sw/generic/eu/vodafone/commercial/ireland/mcfg_sw.mbn">>,
        <<"MCFG/mcfg_sw.mbn.162", "modem_pr/mcfg/configs/mcfg_sw/generic/eu/vodafone/non_volte/mcfg_sw.mbn">>,
        <<"MCFG/mcfg_sw.mbn.163", "modem_pr/mcfg/configs/mcfg_sw/generic/eu/vodafone/volte/cz/mcfg_sw.mbn">>,
        <<"MCFG/mcfg_sw.mbn.164", "modem_pr/mcfg/configs/mcfg_sw/generic/eu/vodafone/volte/germany/mcfg_sw.mbn">>,
        <<"MCFG/mcfg_sw.mbn.165", "modem_pr/mcfg/configs/mcfg_sw/generic/eu/vodafone/volte/italy/mcfg_sw.mbn">>,
        <<"MCFG/mcfg_sw.mbn.166", "modem_pr/mcfg/configs/mcfg_sw/generic/eu/vodafone/volte/netherlands/mcfg_sw.mbn">>,
        <<"MCFG/mcfg_sw.mbn.167", "modem_pr/mcfg/configs/mcfg_sw/generic/eu/vodafone/volte/portugal/mcfg_sw.mbn">>,
        <<"MCFG/mcfg_sw.mbn.168", "modem_pr/mcfg/configs/mcfg_sw/generic/eu/vodafone/volte/safrica/mcfg_sw.mbn">>,
        <<"MCFG/mcfg_sw.mbn.169", "modem_pr/mcfg/configs/mcfg_sw/generic/eu/vodafone/volte/spain/mcfg_sw.mbn">>,
        <<"MCFG/mcfg_sw.mbn.170", "modem_pr/mcfg/configs/mcfg_sw/generic/eu/vodafone/volte/turkey/mcfg_sw.mbn">>,
        <<"MCFG/mcfg_sw.mbn.171", "modem_pr/mcfg/configs/mcfg_sw/generic/eu/vodafone/volte/uk/mcfg_sw.mbn">>,
        <<"MCFG/mcfg_sw.mbn.172", "modem_pr/mcfg/configs/mcfg_sw/generic/korea/kt/commercial_kt_lte/mcfg_sw.mbn">>,
        <<"MCFG/mcfg_sw.mbn.173", "modem_pr/mcfg/configs/mcfg_sw/generic/korea/lgu/commercial/mcfg_sw.mbn">>,
        <<"MCFG/mcfg_sw.mbn.174", "modem_pr/mcfg/configs/mcfg_sw/generic/korea/skt/commercial/mcfg_sw.mbn">>,
        <<"MCFG/mcfg_sw.mbn.175", "modem_pr/mcfg/configs/mcfg_sw/generic/korea/tta/commercial/mcfg_sw.mbn">>,
        <<"MCFG/mcfg_sw.mbn.176", "modem_pr/mcfg/configs/mcfg_sw/generic/latam/amx/commercial/mx/mcfg_sw.mbn">>,
        <<"MCFG/mcfg_sw.mbn.177", "modem_pr/mcfg/configs/mcfg_sw/generic/latam/amx/non_volte/mcfg_sw.mbn">>,
        <<"MCFG/mcfg_sw.mbn.178", "modem_pr/mcfg/configs/mcfg_sw/generic/latam/amx/volte/mcfg_sw.mbn">>,
        <<"MCFG/mcfg_sw.mbn.179", "modem_pr/mcfg/configs/mcfg_sw/generic/latam/claro/commercial/colombia/mcfg_sw.mbn">>,
        <<"MCFG/mcfg_sw.mbn.180", "modem_pr/mcfg/configs/mcfg_sw/generic/latam/telefonica/commercial/colombia/mcfg_sw.mbn">>,
        <<"MCFG/mcfg_sw.mbn.181", "modem_pr/mcfg/configs/mcfg_sw/generic/latam/telefonica/commercial/peru/mcfg_sw.mbn">>,
        <<"MCFG/mcfg_sw.mbn.182", "modem_pr/mcfg/configs/mcfg_sw/generic/mea/stc/commercial/sa/mcfg_sw.mbn">>,
        <<"MCFG/mcfg_sw.mbn.183", "modem_pr/mcfg/configs/mcfg_sw/generic/na/att/firstnet/mcfg_sw.mbn">>,
        <<"MCFG/mcfg_sw.mbn.184", "modem_pr/mcfg/configs/mcfg_sw/generic/na/att/non_volte/mcfg_sw.mbn">>,
        <<"MCFG/mcfg_sw.mbn.185", "modem_pr/mcfg/configs/mcfg_sw/generic/na/att/volte/mcfg_sw.mbn">>,
        <<"MCFG/mcfg_sw.mbn.186", "modem_pr/mcfg/configs/mcfg_sw/generic/na/bell/commercial/ca/mcfg_sw.mbn">>,
        <<"MCFG/mcfg_sw.mbn.187", "modem_pr/mcfg/configs/mcfg_sw/generic/na/rogers/commercial/ca/mcfg_sw.mbn">>,
        <<"MCFG/mcfg_sw.mbn.188", "modem_pr/mcfg/configs/mcfg_sw/generic/na/sprint/commercial/mcfg_sw.mbn">>,
        <<"MCFG/mcfg_sw.mbn.189", "modem_pr/mcfg/configs/mcfg_sw/generic/na/sprint/vowifi/mcfg_sw.mbn">>,
        <<"MCFG/mcfg_sw.mbn.190", "modem_pr/mcfg/configs/mcfg_sw/generic/na/telus/commercial/ca/mcfg_sw.mbn">>,
        <<"MCFG/mcfg_sw.mbn.191", "modem_pr/mcfg/configs/mcfg_sw/generic/na/tmo/commercial/mcfg_sw.mbn">>,
        <<"MCFG/mcfg_sw.mbn.192", "modem_pr/mcfg/configs/mcfg_sw/generic/na/uscc/commercial/mcfg_sw.mbn">>,
        <<"MCFG/mcfg_sw.mbn.193", "modem_pr/mcfg/configs/mcfg_sw/generic/na/verizon/cdmaless/mcfg_sw.mbn">>,
        <<"MCFG/mcfg_sw.mbn.194", "modem_pr/mcfg/configs/mcfg_sw/generic/na/verizon/hvolte/mcfg_sw.mbn">>,
        <<"MCFG/mcfg_sw.mbn.195", "modem_pr/mcfg/configs/mcfg_sw/generic/na/verizon/imsless/mcfg_sw.mbn">>,
        <<"MCFG/mcfg_sw.mbn.196", "modem_pr/mcfg/configs/mcfg_sw/generic/russia/beeline/gen_3gpp/mcfg_sw.mbn">>,
        <<"MCFG/mcfg_sw.mbn.197", "modem_pr/mcfg/configs/mcfg_sw/generic/russia/megafon/commercial/ru/mcfg_sw.mbn">>,
        <<"MCFG/mcfg_sw.mbn.198", "modem_pr/mcfg/configs/mcfg_sw/generic/russia/mts/commercial/ru/mcfg_sw.mbn">>,
        <<"MCFG/mcfg_sw.mbn.199", "modem_pr/mcfg/configs/mcfg_sw/generic/sa/brazil/commercial/mcfg_sw.mbn">>,
        <<"MCFG/mcfg_sw.mbn.200", "modem_pr/mcfg/configs/mcfg_sw/generic/sea/3hk/commercial/hk/mcfg_sw.mbn">>,
        <<"MCFG/mcfg_sw.mbn.201", "modem_pr/mcfg/configs/mcfg_sw/generic/sea/ais/commercial/thailand/mcfg_sw.mbn">>,
        <<"MCFG/mcfg_sw.mbn.202", "modem_pr/mcfg/configs/mcfg_sw/generic/sea/apt/commercial/mcfg_sw.mbn">>,
        <<"MCFG/mcfg_sw.mbn.203", "modem_pr/mcfg/configs/mcfg_sw/generic/sea/chunghwatel/commercial/tw/mcfg_sw.mbn">>,
        <<"MCFG/mcfg_sw.mbn.204", "modem_pr/mcfg/configs/mcfg_sw/generic/sea/dtac/commercial/volte/mcfg_sw.mbn">>,
        <<"MCFG/mcfg_sw.mbn.205", "modem_pr/mcfg/configs/mcfg_sw/generic/sea/fareastone/commercial/mcfg_sw.mbn">>,
        <<"MCFG/mcfg_sw.mbn.206", "modem_pr/mcfg/configs/mcfg_sw/generic/sea/globe/commercial/ph/mcfg_sw.mbn">>,
        <<"MCFG/mcfg_sw.mbn.207", "modem_pr/mcfg/configs/mcfg_sw/generic/sea/hkt/commercial/hk/mcfg_sw.mbn">>,
        <<"MCFG/mcfg_sw.mbn.208", "modem_pr/mcfg/configs/mcfg_sw/generic/sea/m1/commercial/sg/mcfg_sw.mbn">>,
        <<"MCFG/mcfg_sw.mbn.209", "modem_pr/mcfg/configs/mcfg_sw/generic/sea/p1/commercial/malaysia/mcfg_sw.mbn">>,
        <<"MCFG/mcfg_sw.mbn.210", "modem_pr/mcfg/configs/mcfg_sw/generic/sea/singtel/commercial/singapore/mcfg_sw.mbn">>,
        <<"MCFG/mcfg_sw.mbn.211", "modem_pr/mcfg/configs/mcfg_sw/generic/sea/smartfren/commercial/mcfg_sw.mbn">>,
        <<"MCFG/mcfg_sw.mbn.212", "modem_pr/mcfg/configs/mcfg_sw/generic/sea/smartfren/commercial/vowifi/mcfg_sw.mbn">>,
        <<"MCFG/mcfg_sw.mbn.213", "modem_pr/mcfg/configs/mcfg_sw/generic/sea/smartone/commercial/hk/mcfg_sw.mbn">>,
        <<"MCFG/mcfg_sw.mbn.214", "modem_pr/mcfg/configs/mcfg_sw/generic/sea/starhub/commercial/sg/mcfg_sw.mbn">>,
        <<"MCFG/mcfg_sw.mbn.215", "modem_pr/mcfg/configs/mcfg_sw/generic/sea/tm/commercial/mcfg_sw.mbn">>,
        <<"MCFG/mcfg_sw.mbn.216", "modem_pr/mcfg/configs/mcfg_sw/generic/sea/truemove/commercial/volte/mcfg_sw.mbn">>,
        <<"MCFG/mcfg_sw.mbn.217", "modem_pr/mcfg/configs/mcfg_sw/generic/sea/tstar/commercial/tw/mcfg_sw.mbn">>,
        <<"MCFG/mcfg_sw.mbn.218", "modem_pr/mcfg/configs/mcfg_sw/generic/sea/umobile/commercial/malaysia/mcfg_sw.mbn">>,
        <<"MCFG/mcfg_sw.mbn.219", "modem_pr/mcfg/configs/mcfg_sw/generic/sea/viettel/commercial/vietnam/mcfg_sw.mbn">>,
        <<"MCFG/mcfg_sw.mbn.220", "modem_pr/mcfg/configs/mcfg_sw/generic/sea/ytl/commercial/mcfg_sw.mbn">>,
        <<"MCFG/mcfg_sw.mbn.81", "modem_pr/mcfg/configs/mcfg_sw/generic/af/cellc/commercial/safrica/mcfg_sw.mbn">>,
        <<"MCFG/mcfg_sw.mbn.82", "modem_pr/mcfg/configs/mcfg_sw/generic/af/moroccotel/commercial/ma/mcfg_sw.mbn">>,
        <<"MCFG/mcfg_sw.mbn.83", "modem_pr/mcfg/configs/mcfg_sw/generic/apac/dcm/commercial/mcfg_sw.mbn">>,
        <<"MCFG/mcfg_sw.mbn.84", "modem_pr/mcfg/configs/mcfg_sw/generic/apac/kddi/commercial/mcfg_sw.mbn">>,
        <<"MCFG/mcfg_sw.mbn.85", "modem_pr/mcfg/configs/mcfg_sw/generic/apac/reliance/commercial/mcfg_sw.mbn">>,
        <<"MCFG/mcfg_sw.mbn.86", "modem_pr/mcfg/configs/mcfg_sw/generic/apac/sbm/commercial/mcfg_sw.mbn">>,
        <<"MCFG/mcfg_sw.mbn.87", "modem_pr/mcfg/configs/mcfg_sw/generic/aunz/optus/commercial/au/mcfg_sw.mbn">>,
        <<"MCFG/mcfg_sw.mbn.88", "modem_pr/mcfg/configs/mcfg_sw/generic/aunz/telstra/commercial/mcfg_sw.mbn">>,
        <<"MCFG/mcfg_sw.mbn.89", "modem_pr/mcfg/configs/mcfg_sw/generic/aunz/vodafone/commercial/mcfg_sw.mbn">>,
        <<"MCFG/mcfg_sw.mbn.90", "modem_pr/mcfg/configs/mcfg_sw/generic/china/cmcc/commercial/volte_openmkt/mcfg_sw.mbn">>,
        <<"MCFG/mcfg_sw.mbn.91", "modem_pr/mcfg/configs/mcfg_sw/generic/china/cmcc/lab/agnss_loctech/mcfg_sw.mbn">>,
        <<"MCFG/mcfg_sw.mbn.92", "modem_pr/mcfg/configs/mcfg_sw/generic/china/cmcc/lab/conf_volte/mcfg_sw.mbn">>,
        <<"MCFG/mcfg_sw.mbn.93", "modem_pr/mcfg/configs/mcfg_sw/generic/china/cmcc/lab/eps_only/mcfg_sw.mbn">>,
        <<"MCFG/mcfg_sw.mbn.94", "modem_pr/mcfg/configs/mcfg_sw/generic/china/cmcc/lab/lpp_loctech/mcfg_sw.mbn">>,
        <<"MCFG/mcfg_sw.mbn.95", "modem_pr/mcfg/configs/mcfg_sw/generic/china/cmcc/lab/nsiot_volte/mcfg_sw.mbn">>,
        <<"MCFG/mcfg_sw.mbn.96", "modem_pr/mcfg/configs/mcfg_sw/generic/china/cmcc/lab/rrlp_loctech/mcfg_sw.mbn">>,
        <<"MCFG/mcfg_sw.mbn.97", "modem_pr/mcfg/configs/mcfg_sw/generic/china/cmcc/lab/tgl_comb_attach/mcfg_sw.mbn">>,
        <<"MCFG/mcfg_sw.mbn.98", "modem_pr/mcfg/configs/mcfg_sw/generic/china/cmcc/lab/w_irat_comb_attach/mcfg_sw.mbn">>,
        <<"MCFG/mcfg_sw.mbn.99", "modem_pr/mcfg/configs/mcfg_sw/generic/china/ct/commercial/hvolte_openmkt/mcfg_sw.mbn">>,
        <<"MCFG/oem_hw.txt.80", "modem_pr/mcfg/configs/mcfg_hw/oem_hw.txt">>,
        <<"MCFG/oem_sw.txt.223", "modem_pr/mcfg/configs/mcfg_sw/oem_sw.txt">> >>)],
    \* line 499
    [cls |-> "WindowsDriverFirmware", name |-> "adsp/vendor",
     target_directory |-> "qcom/XIAOMI/BOOK124",
     source_directory |-> "qcsubsys_ext_adsp8180",
     files |-> List(<<
        "qcadsp8180.mbn" >>)],
    \* line 505
    [cls |-> "WindowsDriverFirmware", name |-> "cdsp/vendor",
     target_directory |-> "qcom/XIAOMI/BOOK124",
     source_directory |-> "qcsubsys_ext_cdsp8180",
     files |-> List(<<
        "qccdsp8180.mbn" >>)],
    \* line 511
    [cls |-> "WindowsDriverFirmware", name |-> "mpss/vendor",
     target_directory |-> "qcom/XIAOMI/BOOK124",
     source_directory |-> "qcsubsys_ext_mpss8180",
     files |-> List(<<
        "qcmpss8180.mbn",
        "qcmpss8180_nm.mbn" >>)],
    \* line 515
    [cls |-> "WindowsDriverFirmware", name |-> "mpss/library",
     target_directory |-> "qcom/XIAOMI/BOOK124",
     source_directory |-> "mcfg_subsys_ext8180",
     files |-> List(<<
        "qdsp6m.qdb" >>)] >>

\* Mutant of patches: two patches declared the other way round.
patches_swapped ==
    << "venus", "ath10k/firmware-5.bin", "ath10k/board-2.bin", "qca/bt" >>

\* The patch list, by patch name.
patches == << "venus", "ath10k/board-2.bin", "ath10k/firmware-5.bin", "qca/bt" >>

\* patch_qca_bt_symlinks: the fixed list of files to alias.
bt_files == << "crbtfw21.tlv", "crnv21.b3c", "crnv21.b44", "crnv21.b45",
               "crnv21.b46", "crnv21.b47", "crnv21.b71", "crnv21.bin" >>

----------------------------------------------------------------------------
(* Strings and paths *)

Max(S) == CHOOSE x \in S : \A y \in S : y <= x

\* str.startswith
StartsWith(s, prefix) ==
    Len(s) >= Len(prefix) /\ SubSeq(s, 1, Len(prefix)) = prefix

\* Mutant of StrReplace: nothing is replaced.
StrReplace_none(s, old, new) == s

\* str.replace(old, new): every non-overlapping occurrence, left to right.
RECURSIVE StrReplace(_, _, _)
StrReplace(s, old, new) ==
    IF Len(s) < Len(old) THEN s
    ELSE IF SubSeq(s, 1, Len(old)) = old
         THEN new \o StrReplace(SubSeq(s, Len(old) + 1, Len(s)), old, new)
         ELSE SubSeq(s, 1, 1) \o StrReplace(SubSeq(s, 2, Len(s)), old, new)

\* pathlib: a / b
Join(a, b) == IF a = "" THEN b ELSE a \o "/" \o b

Slashes(p) == { k \in 1..Len(p) : SubSeq(p, k, k) = "/" }

\* pathlib: p.parent ("" is the root the path is relative to)
Parent(p) == IF Slashes(p) = {} THEN "" ELSE SubSeq(p, 1, Max(Slashes(p)) - 1)

\* pathlib: p.name / os.path.basename
Basename(p) ==
    IF Slashes(p) = {} THEN p ELSE SubSeq(p, Max(Slashes(p)) + 1, Len(p))

\* p and every directory above it, the root excluded.
Lineage(p) == { SubSeq(p, 1, k - 1) : k \in Slashes(p) } \cup { p }

----------------------------------------------------------------------------
(* The output tree: a function from the paths that exist to their nodes.   *)
(* A node is [type, data]: a "file" with its content, a "dir", or a "link" *)
(* whose data is the link's target.  The root "" is a directory.           *)

EmptyTree == [p \in {} |-> [type |-> "dir", data |-> ""]]
DirNode == [type |-> "dir", data |-> ""]
FileNode(d) == [type |-> "file", data |-> d]
LinkNode(to) == [type |-> "link", data |-> to]

Exists(t, p) == p = "" \/ p \in DOMAIN t
IsDir(t, p) == p = "" \/ (p \in DOMAIN t /\ t[p].type = "dir")
IsFile(t, p) == p \in DOMAIN t /\ t[p].type = "file"
IsLink(t, p) == p \in DOMAIN t /\ t[p].type = "link"

Put(t, p, node) == [q \in DOMAIN t \cup {p} |-> IF q = p THEN node ELSE t[q]]

\* A result of a call: the exception raised ("" when it returned), and the
\* tree it left.
Ok(t) == [exc |-> "", out |-> t]
Raise(e, t) == [exc |-> e, out |-> t]

Lineage0(p) == IF p = "" THEN {} ELSE Lineage(p)

\* Path.mkdir(parents=True, exist_ok=True): fails when d or a directory
\* above it exists and is no directory; nothing is created then, since
\* everything above the offending node exists already.
Mkdir(t, d) ==
    IF \E a \in Lineage0(d) : Exists(t, a) /\ ~IsDir(t, a)
    THEN Raise(IF Exists(t, d) THEN "FileExistsError" ELSE "NotADirectoryError", t)
    ELSE Ok([q \in DOMAIN t \cup Lineage0(d) |->
                IF q \in DOMAIN t THEN t[q] ELSE DirNode])

\* Mutant of WriteFile: a file that exists is kept as it is.
WriteFile_keep(t, p, data) ==
    LET q == IF IsLink(t, p) THEN Join(Parent(p), t[p].data) ELSE p
    IN  IF IsDir(t, q)
        THEN [exc |-> "IsADirectoryError", out |-> t, path |-> ""]
        ELSE IF ~IsDir(t, Parent(q))
        THEN [exc |-> "FileNotFoundError", out |-> t, path |-> ""]
        ELSE [exc |-> "",
              out |-> IF IsFile(t, q) THEN t ELSE Put(t, q, FileNode(data)),
              path |-> q]

\* open(p, "wb") and write: a link is followed, a directory is refused, the
\* containing directory must exist.  `path` is the file actually written.
WriteFile(t, p, data) ==
    LET q == IF IsLink(t, p) THEN Join(Parent(p), t[p].data) ELSE p
    IN  IF IsDir(t, q)
        THEN [exc |-> "IsADirectoryError", out |-> t, path |-> ""]
        ELSE IF ~IsDir(t, Parent(q))
        THEN [exc |-> "FileNotFoundError", out |-> t, path |-> ""]
        ELSE [exc |-> "", out |-> Put(t, q, FileNode(data)), path |-> q]

\* shutil.copy(src, dst) of an existing source file with content `data`:
\* when dst is a directory the file goes into it under the source's base
\* name.
ShutilCopy(t, data, src, dst) ==
    WriteFile(t, IF IsDir(t, dst) THEN Join(dst, Basename(src)) ELSE dst, data)

\* shutil.rmtree(d)
Rmtree(t, d) ==
    IF ~Exists(t, d) THEN Raise("FileNotFoundError", t)
    ELSE IF ~IsDir(t, d) THEN Raise("NotADirectoryError", t)
    ELSE Ok([q \in { q \in DOMAIN t : q # d /\ ~StartsWith(q, d \o "/") } |-> t[q]])

\* The content of a driver-store file, of a downloaded resource, and of a
\* download cut short.
FileData(src) == "file:" \o src
UrlData(url) == "url:" \o url
PartialData(url) == "part:" \o url

----------------------------------------------------------------------------
(* Firmware sources *)

\* dict[k] = v: an existing key keeps its place.
RECURSIVE DictSet(_, _, _)
DictSet(items, k, v) ==
    IF items = << >> THEN << <<k, v>> >>
    ELSE IF Head(items)[1] = k THEN << <<k, v>> >> \o Tail(items)
    ELSE << Head(items) >> \o DictSet(Tail(items), k, v)

\* {x: x for x in files}
RECURSIVE DictOfList(_, _)
DictOfList(files, acc) ==
    IF files = << >> THEN acc
    ELSE DictOfList(Tail(files), DictSet(acc, Head(files), Head(files)))

\* Mutant of Firmware._filemap: the last name of a list is lost.
Firmware_filemap_short(files) ==
    IF files.type = "list"
    THEN [exc |-> "",
          value |-> Dict(DictOfList(SubSeq(files.items, 1, Len(files.items) - 1), << >>))]
    ELSE IF files.type = "dict"
    THEN [exc |-> "", value |-> files]
    ELSE [exc |-> "Exception: invalid file map", value |-> files]

\* Mutant of Firmware._filemap: another type is let through, to fail when
\* the file map is first used.
Firmware_filemap_lazy(files) ==
    IF files.type = "list"
    THEN [exc |-> "", value |-> Dict(DictOfList(files.items, << >>))]
    ELSE [exc |-> "", value |-> files]

\* Firmware._filemap
Firmware_filemap(files) ==
    IF files.type = "list"
    THEN [exc |-> "", value |-> Dict(DictOfList(files.items, << >>))]
    ELSE IF files.type = "dict"
    THEN [exc |-> "", value |-> files]
    ELSE [exc |-> "Exception: invalid file map", value |-> files]

\* WindowsDriverFirmware.__init__ / DownloadFirmware.__init__
Firmware_init(decl) ==
    LET m == Firmware_filemap(decl.files)
    IN  [exc |-> m.exc, self |-> [decl EXCEPT !.files = m.value]]

\* Mutant of _find_source_directory: the first child, whatever its name.
WindowsDriverFirmware_find_source_directory_any(listing, source_directory) ==
    IF listing = << >> THEN << >> ELSE << Head(listing) >>

\* WindowsDriverFirmware._find_source_directory: the first child of the
\* listing whose name starts with the prefix, << >> for None.
RECURSIVE WindowsDriverFirmware_find_source_directory(_, _)
WindowsDriverFirmware_find_source_directory(listing, source_directory) ==
    IF listing = << >> THEN << >>
    ELSE IF StartsWith(Head(listing), source_directory) THEN << Head(listing) >>
    ELSE WindowsDriverFirmware_find_source_directory(Tail(listing), source_directory)

\* Logger.sub / Logger.__init__ (log_pfx[level] must exist)
\* Mutant of Logger.sub: two levels down.
Logger_sub_two(level) == level + 2

Logger_sub(level) == level + 1
Logger_init_ok(level) == level + 1 \in DOMAIN log_pfx

----------------------------------------------------------------------------
(* Bounds and inputs *)

MaxSources == 2
MaxFiles == 2
MaxChildren == 3
MaxRuns == 2

\* The driver store of the device: one package directory per prefix.
Package(prefix) == prefix \o ".inf_arm64_1"
StoreNominal ==
    << Package("mcfg_subsys_ext8180"), Package("qcbtfmuart8180"),
       Package("qcdx8180"), Package("qcsubsys_ext_adsp8180"),
       Package("qcsubsys_ext_cdsp8180"), Package("qcsubsys_ext_mpss8180"),
       Package("qcwlan8180") >>
StoreExtras == { "qcwlan8180.inf_arm64_2", "qcwlan", "oem42.inf_arm64_1" }

Reverse(s) == [k \in 1..Len(s) |-> s[Len(s) + 1 - k]]
Remove(s, k) == SubSeq(s, 1, k - 1) \o SubSeq(s, k + 1, Len(s))

\* Listings of the driver store: complete in either order, with one package
\* missing, and with one more child first or last.
DriverStores ==
    { StoreNominal, Reverse(StoreNominal) }
      \cup { Remove(StoreNominal, k) : k \in DOMAIN StoreNominal }
      \cup { << x >> \o StoreNominal : x \in StoreExtras }
      \cup { StoreNominal \o << x >> : x \in StoreExtras }

\* Small registries, to run the classes on declarations the shipped registry
\* does not hold: overlapping targets, nested targets, other types.
GenPrefix == "pq"
GenChildren == { "pq_1", "pq_2", "p", "xpq" }
GenNames == { "a", "b" }
GenTargets == { "a", "a/b" }

Injective(s) == \A x, y \in DOMAIN s : x # y => s[x] # s[y]

GenListings ==
    UNION { { s \in [1..n -> GenChildren] : Injective(s) } : n \in 0..MaxChildren }

GenFiles(n) ==
    { List(s) : s \in [1..n -> GenNames] }
      \cup { Dict(s) : s \in { f \in [1..n -> GenNames \X GenTargets] :
                                  \A x, y \in 1..n : x # y => f[x][1] # f[y][1] } }
      \cup { [type |-> "tuple", items |-> s] : s \in [1..n -> {"a"}] }
      \cup (IF n = 0 THEN { [type |-> "NoneType", items |-> << >>] } ELSE {})
      \cup (IF n = 1 THEN { [type |-> "set", items |-> << "a" >>] } ELSE {})

GenSources(n) ==
    { [cls |-> "WindowsDriverFirmware", name |-> "w", target_directory |-> "qca",
       source_directory |-> GenPrefix, files |-> f] : f \in GenFiles(n) }
      \cup
    { [cls |-> "DownloadFirmware", name |-> "d", target_directory |-> "qca",
       source_url |-> "http://h", files |-> f] : f \in GenFiles(n) }

\* Registries of at most k sources with at most `budget` file entries in all.
RECURSIVE GenRegistries(_, _)
GenRegistries(k, budget) ==
    IF k = 0 THEN { << >> }
    ELSE { << >> } \cup
         UNION { { << d >> \o r : d \in GenSources(n),
                                  r \in GenRegistries(k - 1, budget - n) } :
                 n \in 0..budget }

----------------------------------------------------------------------------
VARIABLES
    euid,        \* os.geteuid()
    python_ok,   \* whether "python" is an executable on the PATH
    wdsfr,       \* args.path_wdsfr.iterdir(): the children's names, in order
    decls,       \* the constructor calls of the registry under construction
    patchlist,   \* the patches handed to patch()
    pc,          \* where the process is
    registry,    \* the sources constructed so far
    i,           \* gather / patch: the index of the current source / patch
    j,           \* the index of the current file inside get / the bt patch
    base,        \* get: the resolved source directory, << >> for None
    out,         \* the output tree
    tmpfile,     \* patch_ath10k_board: the content of the temporary file
    calls,       \* every get / apply invoked so far, in order
    returned,    \* every get / apply that has returned, in order
    raised,      \* the exception that ended the process, with its place
    tools,       \* every external tool run so far, with its exit status
    wrote,       \* every file a source wrote: [by, path, data]
    loggers      \* the level of every Logger created

vars == << euid, python_ok, wdsfr, decls, patchlist, pc, registry, i, j, base,
           out, tmpfile, calls, returned, raised, tools, wrote, loggers >>

env == << euid, python_ok, wdsfr, decls, patchlist >>

NoRaise == [exc |-> "", at |-> "", i |-> 0, j |-> 0]

InitState ==
    /\ pc = "import"
    /\ registry = << >>
    /\ i = 0
    /\ j = 0
    /\ base = << >>
    /\ out = EmptyTree
    /\ tmpfile = << >>
    /\ calls = << >>
    /\ returned = << >>
    /\ raised = NoRaise
    /\ tools = << >>
    /\ wrote = {}
    /\ loggers = {}

\* The program as shipped.
InitProgram ==
    /\ decls = sources
    /\ patchlist = patches
    /\ wdsfr \in DriverStores
    /\ euid \in { 0, 1000 }
    /\ python_ok \in BOOLEAN

\* gather() and patch() over small registries.
InitRegistries ==
    /\ decls \in GenRegistries(MaxSources, MaxFiles)
    /\ patchlist = << "qca/bt" >>
    /\ wdsfr = << "pq_1" >>
    /\ euid = 1000
    /\ python_ok = TRUE

\* One local-copy source over every listing of a small driver store.
InitListings ==
    /\ decls = << [cls |-> "WindowsDriverFirmware", name |-> "w",
                   target_directory |-> "qca", source_directory |-> GenPrefix,
                   files |-> List(<< "a" >>)] >>
    /\ patchlist = << "qca/bt" >>
    /\ wdsfr \in GenListings
    /\ euid = 1000
    /\ python_ok = TRUE

\* patch() over a list that holds the alias patch more than once.
InitRerun ==
    /\ decls \in GenRegistries(1, 1)
    /\ patchlist \in { [k \in 1..n |-> "qca/bt"] : n \in 2..MaxRuns }
    /\ wdsfr = << "pq_1" >>
    /\ euid = 1000
    /\ python_ok = TRUE

Init ==
    InitState /\ (InitProgram \/ InitRegistries \/ InitListings \/ InitRerun)

----------------------------------------------------------------------------
(* Actions *)

\* Mutant of Abort: a failed file is given up and gather's loop goes on.
Abort_continue(exc) ==
    /\ pc' = IF pc = "get" THEN "gather" ELSE "abort"
    /\ raised' = [exc |-> exc, at |-> pc, i |-> i, j |-> j]

\* An exception unwinds to the top level: the process ends.
Abort(exc) ==
    /\ pc' = "abort"
    /\ raised' = [exc |-> exc, at |-> pc, i |-> i, j |-> j]

\* Module level: sources = [ ... ], one constructor call after the other.
Construct ==
    /\ pc = "import"
    /\ Len(registry) < Len(decls)
    /\ LET r == Firmware_init(decls[Len(registry) + 1])
       IN  IF r.exc # ""
           THEN /\ Abort(r.exc)
                /\ UNCHANGED registry
           ELSE /\ registry' = Append(registry, r.self)
                /\ UNCHANGED << pc, raised >>
    /\ UNCHANGED << env, i, j, base, out, tmpfile, calls, returned, tools, wrote,
                    loggers >>

\* main(): the root check, the root logger, and the call of gather().
MainStart ==
    /\ pc = "import"
    /\ Len(registry) = Len(decls)
    /\ IF euid = 0
       THEN /\ pc' = "exit1"
            /\ UNCHANGED << i, loggers, raised >>
       ELSE IF ~(Logger_init_ok(0) /\ Logger_init_ok(Logger_sub(0)))
       THEN /\ Abort("IndexError")
            /\ UNCHANGED << i, loggers >>
       ELSE /\ pc' = "gather"
            /\ i' = 1
            /\ loggers' = loggers \cup { 0, Logger_sub(0) }
            /\ UNCHANGED raised
    /\ UNCHANGED << env, registry, j, base, out, tmpfile, calls, returned, tools,
                    wrote >>

\* After the last file of get, back in gather's loop.
GetAdvance(n) ==
    IF j = n
    THEN /\ pc' = "gather"
         /\ i' = i + 1
         /\ j' = 0
         /\ returned' = Append(returned, << "get", i >>)
    ELSE /\ j' = j + 1
         /\ UNCHANGED << pc, i, returned >>

\* gather(): the loop's next round, up to the first file of src.get().
GatherNext ==
    /\ pc = "gather"
    /\ i <= Len(registry)
    /\ LET src == registry[i]
           lvl == Logger_sub(Logger_sub(0))
       IN  IF ~Logger_init_ok(lvl)
           THEN /\ Abort("IndexError")
                /\ UNCHANGED << i, j, base, calls, returned, loggers >>
           ELSE /\ calls' = Append(calls, << "get", i >>)
                /\ loggers' = loggers \cup { lvl }
                /\ base' = IF src.cls = "WindowsDriverFirmware"
                           THEN WindowsDriverFirmware_find_source_directory(
                                    wdsfr, src.source_directory)
                           ELSE << >>
                /\ IF src.files.type # "dict"
                   THEN /\ Abort("AttributeError")
                        /\ UNCHANGED << i, j, returned >>
                   ELSE IF src.files.items = << >>
                   THEN /\ i' = i + 1
                        /\ returned' = Append(returned, << "get", i >>)
                        /\ UNCHANGED << pc, j, raised >>
                   ELSE /\ pc' = "get"
                        /\ j' = 1
                        /\ UNCHANGED << i, returned, raised >>
    /\ UNCHANGED << env, registry, out, tmpfile, tools, wrote >>

\* Whether a driver-store file is there: one already copied is.
Presence(src) ==
    IF \E w \in wrote : w.data = FileData(src) THEN { TRUE } ELSE BOOLEAN

\* Mutant of GetCopy: a failed copy takes the output tree with it.
GetCopy_rollback(src, s, t) ==
    IF base = << >>
    THEN /\ Abort("TypeError")
         /\ UNCHANGED << i, j, out, wrote, returned >>
    ELSE LET from == Join(base[1], s)
             tgt == Join(src.target_directory, t)
             mk == Mkdir(out, Parent(tgt))
         IN  IF mk.exc # ""
             THEN /\ Abort(mk.exc)
                  /\ UNCHANGED << i, j, out, wrote, returned >>
             ELSE \E present \in Presence(from) :
                    LET cp == ShutilCopy(mk.out, FileData(from), from, tgt)
                    IN  IF ~present \/ cp.exc # ""
                        THEN /\ Abort(IF present THEN cp.exc ELSE "FileNotFoundError")
                             /\ out' = EmptyTree
                             /\ UNCHANGED << i, j, wrote, returned >>
                        ELSE /\ out' = cp.out
                             /\ wrote' = wrote \cup
                                  { [by |-> i, path |-> cp.path, data |-> FileData(from)] }
                             /\ GetAdvance(Len(src.files.items))
                             /\ UNCHANGED raised

\* WindowsDriverFirmware.get: one round of the loop over self.files.
GetCopy(src, s, t) ==
    IF base = << >>
    THEN /\ Abort("TypeError")
         /\ UNCHANGED << i, j, out, wrote, returned >>
    ELSE LET from == Join(base[1], s)
             tgt == Join(src.target_directory, t)
             mk == Mkdir(out, Parent(tgt))
         IN  IF mk.exc # ""
             THEN /\ Abort(mk.exc)
                  /\ UNCHANGED << i, j, out, wrote, returned >>
             ELSE \E present \in Presence(from) :
                    LET cp == ShutilCopy(mk.out, FileData(from), from, tgt)
                    IN  IF ~present \/ cp.exc # ""
                        THEN /\ Abort(IF present THEN cp.exc ELSE "FileNotFoundError")
                             /\ out' = mk.out
                             /\ UNCHANGED << i, j, wrote, returned >>
                        ELSE /\ out' = cp.out
                             /\ wrote' = wrote \cup
                                  { [by |-> i, path |-> cp.path, data |-> FileData(from)] }
                             /\ GetAdvance(Len(src.files.items))
                             /\ UNCHANGED raised

\* DownloadFirmware.get: one round of the loop over self.files.  The
\* retrieval fails before anything is written ("error"), after a part of the
\* resource is written ("short"), or not at all.
GetDownload(src, s, t) ==
    LET url == src.source_url \o "/" \o s
        tgt == Join(src.target_directory, t)
        mk == Mkdir(out, Parent(tgt))
    IN  IF mk.exc # ""
        THEN /\ Abort(mk.exc)
             /\ UNCHANGED << i, j, out, wrote, returned >>
        ELSE \E net \in { "ok", "error", "short" } :
               LET data == IF net = "ok" THEN UrlData(url) ELSE PartialData(url)
                   wr == WriteFile(mk.out, tgt, data)
               IN  IF net = "error" \/ wr.exc # ""
                   THEN /\ Abort(IF net = "error" THEN "URLError" ELSE wr.exc)
                        /\ out' = mk.out
                        /\ UNCHANGED << i, j, wrote, returned >>
                   ELSE /\ out' = wr.out
                        /\ wrote' = wrote \cup
                             { [by |-> i, path |-> wr.path, data |-> data] }
                        /\ IF net = "short"
                           THEN /\ Abort("ContentTooShortError")
                                /\ UNCHANGED << i, j, returned >>
                           ELSE /\ GetAdvance(Len(src.files.items))
                                /\ UNCHANGED raised

GetFile ==
    /\ pc = "get"
    /\ LET src == registry[i]
           s == src.files.items[j][1]
           t == src.files.items[j][2]
       IN  IF src.cls = "WindowsDriverFirmware"
           THEN GetCopy(src, s, t)
           ELSE GetDownload(src, s, t)
    /\ UNCHANGED << env, registry, base, tmpfile, calls, tools, loggers >>

\* Mutant of MainPatch: gather's loop is left one source early.
MainPatch_early ==
    /\ pc = "gather"
    /\ i >= Len(registry)
    /\ pc' = "patch"
    /\ i' = 1
    /\ loggers' = loggers \cup { Logger_sub(0) }
    /\ UNCHANGED << env, registry, j, base, out, tmpfile, calls, returned, raised,
                    tools, wrote >>

\* main(): gather() has returned; the call of patch().
MainPatch ==
    /\ pc = "gather"
    /\ i > Len(registry)
    /\ IF ~Logger_init_ok(Logger_sub(0))
       THEN /\ Abort("IndexError")
            /\ UNCHANGED << i, loggers >>
       ELSE /\ pc' = "patch"
            /\ i' = 1
            /\ loggers' = loggers \cup { Logger_sub(0) }
            /\ UNCHANGED raised
    /\ UNCHANGED << env, registry, j, base, out, tmpfile, calls, returned, tools,
                    wrote >>

\* Where each patch function starts.
PatchEntry(name) ==
    CASE name = "venus" -> "venus_split"
      [] name = "ath10k/board-2.bin" -> "board_spec"
      [] name = "ath10k/firmware-5.bin" -> "fw_encode"
      [] name = "qca/bt" -> "bt_link"

\* patch(): the loop's next round, up to the call of the patch function.
PatchNext ==
    /\ pc = "patch"
    /\ i <= Len(patchlist)
    /\ LET lvl == Logger_sub(Logger_sub(0))
       IN  IF ~Logger_init_ok(lvl)
           THEN /\ Abort("IndexError")
                /\ UNCHANGED << j, calls, loggers >>
           ELSE /\ calls' = Append(calls, << "apply", i >>)
                /\ loggers' = loggers \cup { lvl }
                /\ pc' = PatchEntry(patchlist[i])
                /\ j' = 1
                /\ UNCHANGED raised
    /\ UNCHANGED << env, registry, i, base, out, tmpfile, returned, tools, wrote >>

\* The patch function returns: back in patch's loop.
PatchReturn ==
    /\ pc' = "patch"
    /\ i' = i + 1
    /\ j' = 0
    /\ returned' = Append(returned, << "apply", i >>)
    /\ UNCHANGED raised

\* The exit statuses an external tool may end with: 0 only when it could do
\* its work.
ExitStatuses(can_succeed) == IF can_succeed THEN { 0, 1 } ELSE { 1 }

\* subprocess.call(["python", tool, ...]): the status is returned, and the
\* callers drop it.
Called(tool, status) == Append(tools, [tool |-> tool, status |-> status, by |-> i])

path_mbn_venus == Join(Join("qcom", PATH_PLATFORM), "qcvss8180.mbn")
path_dir_venus == Join("qcom", PATH_VENUS)
path_boards == "ath10k/WCN3990/hw1.0/boards"
path_board_out == "ath10k/WCN3990/hw1.0/board-2.bin"
path_fw5_bin == "ath10k/WCN3990/hw1.0/firmware-5.bin"
fw5_features == "wowlan,mgmt-tx-by-ref,non-bmi,single-chan-info-per-channel"

\* patch_venus_extract: the directory, and the splitter run on the blob.
VenusSplit ==
    /\ pc = "venus_split"
    /\ LET mk == Mkdir(out, path_dir_venus)
           data == IF IsFile(out, path_mbn_venus) THEN out[path_mbn_venus].data ELSE ""
           wr == WriteFile(mk.out, Join(path_dir_venus, "venus.mdt"), "pil-splitter:" \o data)
       IN  IF mk.exc # "" \/ ~python_ok
           THEN /\ Abort(IF mk.exc # "" THEN mk.exc ELSE "FileNotFoundError")
                /\ out' = mk.out
                /\ UNCHANGED tools
           ELSE \E status \in ExitStatuses(IsFile(out, path_mbn_venus) /\ wr.exc = "") :
                  /\ out' = IF status = 0 THEN wr.out ELSE mk.out
                  /\ tools' = Called("pil-splitter.py", status)
                  /\ pc' = "venus_copy"
                  /\ UNCHANGED raised
    /\ UNCHANGED << env, registry, i, j, base, tmpfile, calls, returned, wrote,
                    loggers >>

\* patch_venus_extract: the copy of the blob.
VenusCopy ==
    /\ pc = "venus_copy"
    /\ LET cp == ShutilCopy(out, out[path_mbn_venus].data, path_mbn_venus,
                            Join(path_dir_venus, "venus.mbn"))
       IN  IF ~IsFile(out, path_mbn_venus)
           THEN /\ Abort(IF IsDir(out, path_mbn_venus)
                         THEN "IsADirectoryError" ELSE "FileNotFoundError")
                /\ UNCHANGED << i, j, out, returned >>
           ELSE IF cp.exc # ""
           THEN /\ Abort(cp.exc)
                /\ UNCHANGED << i, j, out, returned >>
           ELSE /\ out' = cp.out
                /\ PatchReturn
    /\ UNCHANGED << env, registry, base, tmpfile, calls, tools, wrote, loggers >>

\* Mutant of BoardSpec: the encoder is reached with nothing dumped.
BoardSpec_empty ==
    /\ pc = "board_spec"
    /\ tmpfile' = << >>
    /\ pc' = "board_encode"
    /\ UNCHANGED << env, registry, i, j, base, out, calls, returned, raised, tools,
                    wrote, loggers >>

\* patch_ath10k_board: the specification, dumped to the temporary file.
BoardSpec ==
    /\ pc = "board_spec"
    /\ tmpfile' = << [data |-> Join(path_boards, ATH10K_BOARD_FILE),
                      names |-> << ATH10K_BOARD_NAME >>] >>
    /\ pc' = "board_encode"
    /\ UNCHANGED << env, registry, i, j, base, out, calls, returned, raised, tools,
                    wrote, loggers >>

\* What ath10k-bdencoder -c makes of a specification: each record's names
\* with its data file's content.
RECURSIVE BdEncode(_, _)
BdEncode(t, spec) ==
    IF spec = << >> THEN ""
    ELSE "[" \o Head(spec).names[1] \o "=" \o t[Head(spec).data].data \o "]"
           \o BdEncode(t, Tail(spec))

\* patch_ath10k_board: the encoder run on the temporary file.
BoardEncode ==
    /\ pc = "board_encode"
    /\ IF ~python_ok
       THEN /\ Abort("FileNotFoundError")
            /\ UNCHANGED << out, tools >>
       ELSE LET readable == \A k \in DOMAIN tmpfile : IsFile(out, tmpfile[k].data)
                wr == WriteFile(out, path_board_out,
                                "ath10k-bdencoder:" \o BdEncode(out, tmpfile))
            IN  \E status \in ExitStatuses(readable /\ wr.exc = "") :
                  /\ out' = IF status = 0 THEN wr.out ELSE out
                  /\ tools' = Called("ath10k-bdencoder", status)
                  /\ pc' = "board_rmtree"
                  /\ UNCHANGED raised
    /\ UNCHANGED << env, registry, i, j, base, tmpfile, calls, returned, wrote,
                    loggers >>

\* patch_ath10k_board: the boards directory is deleted; the temporary file
\* goes with the function's return.
BoardRmtree ==
    /\ pc = "board_rmtree"
    /\ LET rm == Rmtree(out, path_boards)
       IN  IF rm.exc # ""
           THEN /\ Abort(rm.exc)
                /\ UNCHANGED << i, j, out, tmpfile, returned >>
           ELSE /\ out' = rm.out
                /\ tmpfile' = << >>
                /\ PatchReturn
    /\ UNCHANGED << env, registry, base, calls, tools, wrote, loggers >>

\* patch_ath10k_firmware: the encoder modifies firmware-5.bin in place.
FirmwareEncode ==
    /\ pc = "fw_encode"
    /\ IF ~python_ok
       THEN /\ Abort("FileNotFoundError")
            /\ UNCHANGED << i, j, out, tools, returned >>
       ELSE \E status \in ExitStatuses(IsFile(out, path_fw5_bin)) :
              /\ out' = IF status = 0
                        THEN Put(out, path_fw5_bin,
                                 FileNode("ath10k-fwencoder:" \o fw5_features \o ":"
                                            \o out[path_fw5_bin].data))
                        ELSE out
              /\ tools' = Called("ath10k-fwencoder", status)
              /\ PatchReturn
    /\ UNCHANGED << env, registry, base, tmpfile, calls, wrote, loggers >>

\* Mutant of Unlink: what is there is left there.
Unlink_keep(t, p) ==
    IF IsDir(t, p) THEN Raise("IsADirectoryError", t)
    ELSE IF Exists(t, Parent(p)) /\ ~IsDir(t, Parent(p)) THEN Raise("NotADirectoryError", t)
    ELSE Ok(t)

\* Path.unlink(missing_ok=True)
Unlink(t, p) ==
    IF IsDir(t, p) THEN Raise("IsADirectoryError", t)
    ELSE IF Exists(t, Parent(p)) /\ ~IsDir(t, Parent(p)) THEN Raise("NotADirectoryError", t)
    ELSE Ok([q \in DOMAIN t \ {p} |-> t[q]])

\* Path.symlink_to(target)
SymlinkTo(t, p, target) ==
    IF Exists(t, p) THEN Raise("FileExistsError", t)
    ELSE IF ~IsDir(t, Parent(p)) THEN Raise("FileNotFoundError", t)
    ELSE Ok(Put(t, p, LinkNode(target)))

\* patch_qca_bt_symlinks: one round of the loop over the files.
BtSymlink ==
    /\ pc = "bt_link"
    /\ LET file == bt_files[j]
           link == Join("qca", StrReplace(file, "21", "01"))
           un == Unlink(out, link)
           sl == SymlinkTo(un.out, link, file)
       IN  IF un.exc # "" \/ sl.exc # ""
           THEN /\ Abort(IF un.exc # "" THEN un.exc ELSE sl.exc)
                /\ out' = un.out
                /\ UNCHANGED << i, j, returned >>
           ELSE /\ out' = sl.out
                /\ IF j = Len(bt_files)
                   THEN PatchReturn
                   ELSE /\ j' = j + 1
                        /\ UNCHANGED << pc, i, returned, raised >>
    /\ UNCHANGED << env, registry, base, tmpfile, calls, tools, wrote, loggers >>

\* Mutant of MainDone: patch's loop is left one patch early.
MainDone_early ==
    /\ pc = "patch"
    /\ i >= Len(patchlist)
    /\ pc' = "done"
    /\ UNCHANGED << env, registry, i, j, base, out, tmpfile, calls, returned,
                    raised, tools, wrote, loggers >>

\* main(): patch() has returned; "done!".
MainDone ==
    /\ pc = "patch"
    /\ i > Len(patchlist)
    /\ pc' = "done"
    /\ UNCHANGED << env, registry, i, j, base, out, tmpfile, calls, returned,
                    raised, tools, wrote, loggers >>

Next ==
    \/ Construct
    \/ MainStart
    \/ GatherNext
    \/ GetFile
    \/ MainPatch
    \/ PatchNext
    \/ VenusSplit
    \/ VenusCopy
    \/ BoardSpec
    \/ BoardEncode
    \/ BoardRmtree
    \/ FirmwareEncode
    \/ BtSymlink
    \/ MainDone

Spec == Init /\ [][Next]_vars

----------------------------------------------------------------------------
(* Phases and steps *)

GatherLabels == { "gather", "get" }
PatchLabels == { "patch", "venus_split", "venus_copy", "board_spec", "board_encode",
                 "board_rmtree", "fw_encode", "bt_link" }

\* The orchestrator's state: START before gather() is called, GATHER and
\* PATCH inside gather() and patch(), DONE after "done!"; ABORT once the
\* process has ended otherwise.
Phase(label) ==
    CASE label = "import" -> "START"
      [] label \in GatherLabels -> "GATHER"
      [] label \in PatchLabels -> "PATCH"
      [] label = "done" -> "DONE"
      [] OTHER -> "ABORT"

Gets == [k \in DOMAIN registry |-> << "get", k >>]
Applies == [k \in DOMAIN patchlist |-> << "apply", k >>]

Index(seq, x) == CHOOSE k \in DOMAIN seq : seq[k] = x
Occurs(seq, x) == \E k \in DOMAIN seq : seq[k] = x

\* Some step (a source's get, a patch's operation) has raised.
StepFailed == raised.exc # "" /\ raised.at \in GatherLabels \cup PatchLabels

\* gather() has just returned: every get has returned and no patch has run.
Gathered == pc = "patch" /\ i = 1 /\ returned = Gets

----------------------------------------------------------------------------
(* C1: whenever a patch's operation has been invoked, the get of every     *)
(* source of the registry was invoked before it and has returned without   *)
(* raising before it: all GATHER steps precede every PATCH step.           *)

C1_GatherBeforePatch ==
    \A k \in DOMAIN calls :
        calls[k][1] = "apply" =>
            /\ Len(registry) = Len(decls)
            /\ \A s \in DOMAIN registry :
                  /\ Occurs(calls, << "get", s >>)
                  /\ Index(calls, << "get", s >>) < k
                  /\ Occurs(returned, << "get", s >>)
            /\ \A m \in DOMAIN calls : calls[m][1] = "get" => m < k
            /\ \A m \in DOMAIN returned :
                  returned[m][1] = "get" =>
                      \A n \in DOMAIN returned : returned[n] = calls[k] => m < n
            /\ ~(raised.at \in GatherLabels)

C1_Witness ==
    /\ decls = sources
    /\ Len(calls) = Len(sources) + 1
    /\ calls[Len(calls)] = << "apply", 1 >>

(* C2: once a step has failed nothing more happens: no get and no apply is *)
(* invoked or returns, the output tree is left as it is, the process has   *)
(* ended and is not, and never becomes, DONE.                              *)

C3_ToolFailureFailsPatch ==
    \A k \in DOMAIN tools :
        tools[k].status # 0 =>
            /\ pc = "abort"
            /\ raised.exc # ""
            /\ raised.i = tools[k].by
            /\ k = Len(tools)
            /\ ~Occurs(returned, << "apply", tools[k].by >>)

(* C4: the orchestrator moves START -> GATHER -> PATCH -> DONE and never   *)
(* back, an ended process stays ended, no step is invoked twice, and DONE  *)
(* is reached exactly when every get and every apply has returned without  *)
(* raising.                                                                *)

AllSucceeded ==
    /\ Len(registry) = Len(decls)
    /\ returned = Gets \o Applies

LinearStep(p, q) ==
    \/ p = q
    \/ p = "START" /\ q = "GATHER"
    \/ p = "GATHER" /\ q = "PATCH"
    \/ p = "PATCH" /\ q = "DONE"
    \/ p \notin { "DONE", "ABORT" } /\ q = "ABORT"

CallName(c) == IF c[1] = "get" THEN registry[c[2]].name ELSE patchlist[c[2]]

C5_ExactlyOnceInOrder ==
    /\ \A m, n \in DOMAIN calls : m # n => calls[m] # calls[n]
    /\ \A m \in DOMAIN calls :
          calls[m][2] \in (IF calls[m][1] = "get" THEN DOMAIN decls ELSE DOMAIN patchlist)
    /\ pc = "done" =>
          /\ calls = Gets \o Applies
          /\ \A k \in DOMAIN decls : CallName(calls[k]) = decls[k].name
          /\ decls = sources =>
                [k \in 1..4 |-> CallName(calls[Len(sources) + k])]
                  = << "venus", "ath10k/board-2.bin", "ath10k/firmware-5.bin", "qca/bt" >>

C5_Witness ==
    /\ decls = sources
    /\ pc = "done"
    /\ Len(calls) = Len(sources) + Len(patches)


(* C6: Firmware._filemap turns a list of names into the mapping of each   *)
(* name to itself, whose keys are exactly the list's names, and returns a  *)
(* mapping as it is: every constructed source holds that file map.         *)

Keys(m) == { m.items[k][1] : k \in DOMAIN m.items }
Items(m) == { m.items[k] : k \in DOMAIN m.items }

C6_FilemapNormalised ==
    \A k \in DOMAIN registry :
        LET given == decls[k].files
            made == registry[k].files
        IN  /\ given.type = "list" =>
                /\ made.type = "dict"
                /\ Keys(made) = { given.items[n] : n \in DOMAIN given.items }
                /\ Items(made) = { << x, x >> : x \in Keys(made) }
                /\ Len(made.items) = Cardinality(Keys(made))
            /\ given.type = "dict" => made = given

C6_Witness ==
    /\ Len(registry) = Len(decls)
    /\ \E k \in DOMAIN registry :
          /\ decls[k].files.type = "list"
          /\ Len(decls[k].files.items) >= 2
          /\ registry[k].files.type = "dict"
    /\ \E k \in DOMAIN registry :
          /\ decls[k].files.type = "dict"
          /\ \E n \in DOMAIN registry[k].files.items :
                registry[k].files.items[n][1] # registry[k].files.items[n][2]

(* C7: a file-map declaration that is neither a sequence nor a mapping is  *)
(* rejected by the constructor: the source is never constructed, the       *)
(* process ends at module level with the configuration error, and no get   *)
(* is ever invoked.                                                        *)

Malformed(files) == files.type \notin { "list", "tuple", "dict" }

C7_MalformedRejectedAtConstruction ==
    \A k \in DOMAIN decls :
        Malformed(decls[k].files) =>
            /\ Len(registry) < k
            /\ calls = << >>
            /\ pc \in { "import", "abort" }
            /\ pc = "abort" =>
                  /\ raised.at = "import"
                  /\ raised.exc = "Exception: invalid file map"

C7_Witness ==
    /\ Len(decls) = 2
    /\ Malformed(decls[2].files)
    /\ Len(registry) = 1
    /\ pc = "abort"
    /\ raised.at = "import"

(* C8: when exactly one child of the driver store has a name starting with *)
(* the prefix of the local-copy source whose get is running, the resolved  *)
(* directory is that child, wherever it stands in the listing and whatever *)
(* the other children are.                                                 *)

Matching(prefix) ==
    { k \in DOMAIN wdsfr :
        \E n \in 0..Len(wdsfr[k]) : SubSeq(wdsfr[k], 1, n) = prefix }

C8_SingleMatchResolved ==
    pc = "get" /\ registry[i].cls = "WindowsDriverFirmware" =>
        \A k \in Matching(registry[i].source_directory) :
            Matching(registry[i].source_directory) = { k } => base = << wdsfr[k] >>

C8_Witness ==
    /\ pc = "get"
    /\ registry[i].cls = "WindowsDriverFirmware"
    /\ Len(wdsfr) = 3
    /\ Matching(registry[i].source_directory) = { 3 }
    /\ base = << wdsfr[3] >>

(* C9: when gather() has returned, every target of every source's file map *)
(* is a file of the output tree.                                           *)

C9_TargetsExistAfterGather ==
    Gathered =>
        \A s \in DOMAIN registry :
            \A k \in DOMAIN registry[s].files.items :
                IsFile(out, Join(registry[s].target_directory,
                                 registry[s].files.items[k][2]))

(* C10: when gather() has returned, a path that two sources wrote holds    *)
(* what the source declared later wrote there.                             *)

Writers(p) == { w.by : w \in { w \in wrote : w.path = p } }

C10_LastWriterWins ==
    Gathered =>
        \A a, b \in wrote :
            a.path = b.path /\ a.by < b.by =>
                /\ IsFile(out, a.path)
                /\ \E w \in wrote :
                      /\ w.path = a.path
                      /\ w.by = Max(Writers(a.path))
                      /\ out[a.path].data = w.data

C10_Witness ==
    /\ Gathered
    /\ \E a, b \in wrote :
          /\ a.path = b.path
          /\ a.by < b.by
          /\ a.data # b.data
          /\ out[b.path].data = b.data

(* C11: the alias patch run again right after itself raises nothing and   *)
(* leaves the output tree, and so every alias link and its target, as the  *)
(* first run left it; after the second run the eight aliases are links to  *)
(* their originals.                                                        *)

Alias(file) == StrReplace(file, "21", "01")
Rerun == i > 1 /\ i <= Len(patchlist) /\ patchlist[i] = "qca/bt" /\ patchlist[i - 1] = "qca/bt"

C11_AliasRerunIdempotent ==
    /\ [][pc = "bt_link" /\ Rerun => out' = out /\ raised' = raised]_vars
    /\ [](pc = "patch" /\ i > 2 /\ patchlist[i - 1] = "qca/bt" /\ patchlist[i - 2] = "qca/bt" =>
            \A k \in DOMAIN bt_files :
                /\ IsLink(out, Join("qca", Alias(bt_files[k])))
                /\ out[Join("qca", Alias(bt_files[k]))].data = bt_files[k])

C11_Witness ==
    /\ pc = "patch"
    /\ i = 3
    /\ patchlist[1] = "qca/bt"
    /\ patchlist[2] = "qca/bt"
    /\ returned[Len(returned)] = << "apply", 2 >>
    /\ IsDir(out, "qca")
    /\ IsLink(out, "qca/crbtfw01.tlv")

(* C12: for the shipped sources and patches, while a patch runs every     *)
(* file of the output tree it reads is a file there and was written by a   *)
(* source during gather.                                                   *)

Reads(label) ==
    CASE label \in { "venus_split", "venus_copy" } -> { path_mbn_venus }
      [] label \in { "board_spec", "board_encode" } ->
            { Join(path_boards, ATH10K_BOARD_FILE) }
      [] label = "fw_encode" -> { path_fw5_bin }
      [] label = "bt_link" -> { Join("qca", bt_files[k]) : k \in DOMAIN bt_files }
      [] OTHER -> {}

C12_PatchInputsPresent ==
    decls = sources /\ patchlist = patches =>
        \A p \in Reads(pc) :
            /\ IsFile(out, p)
            /\ \E w \in wrote : w.path = p /\ out[p].data = w.data

C12_Witness ==
    /\ decls = sources
    /\ patchlist = patches
    /\ pc = "bt_link"
    /\ j = Len(bt_files)
    /\ \A k \in 1..3 : Occurs(returned, << "apply", k >>)
    /\ \A p \in Reads("bt_link") : IsFile(out, p)

(* C13: when several children of the driver store start with the prefix   *)
(* of the local-copy source whose get is running, the resolved directory   *)
(* is the one whose name comes first in lexicographic order, whatever the  *)
(* order of the listing.                                                   *)

\* The characters of the names, in code-point order.
Ascii ==
    << ".", "0", "1", "2", "3", "4", "5", "6", "7", "8", "9", "_",
       "a", "b", "c", "d", "e", "f", "g", "h", "i", "j", "k", "l", "m",
       "n", "o", "p", "q", "r", "s", "t", "u", "v", "w", "x", "y", "z" >>
Rank(c) == CHOOSE k \in DOMAIN Ascii : Ascii[k] = c

RECURSIVE StrLess(_, _)
StrLess(a, b) ==
    IF Len(a) = 0 THEN Len(b) > 0
    ELSE IF Len(b) = 0 THEN FALSE
    ELSE IF SubSeq(a, 1, 1) = SubSeq(b, 1, 1)
    THEN StrLess(SubSeq(a, 2, Len(a)), SubSeq(b, 2, Len(b)))
    ELSE Rank(SubSeq(a, 1, 1)) < Rank(SubSeq(b, 1, 1))

C13_LexicographicFirstMatch ==
    pc = "get" /\ registry[i].cls = "WindowsDriverFirmware" =>
        LET found == Matching(registry[i].source_directory)
        IN  Cardinality(found) >= 2 =>
                \E k \in found :
                    /\ base = << wdsfr[k] >>
                    /\ \A m \in found : ~StrLess(wdsfr[m], wdsfr[k])

(* C14: when no child of the driver store starts with the prefix of a     *)
(* local-copy source whose get was invoked, the resolution raises nothing  *)
(* and yields no directory, the get does not return, and the process ends  *)
(* at the source's first file with a not-found error.                      *)

Current == IF pc = "abort" THEN raised.i ELSE i

C14_NoMatchNotFound ==
    /\ Current \in DOMAIN registry
    /\ Occurs(calls, << "get", Current >>)
    /\ pc \in GatherLabels \cup { "abort" }
    /\ registry[Current].cls = "WindowsDriverFirmware"
    /\ registry[Current].files.type = "dict"
    /\ Matching(registry[Current].source_directory) = {}
    => /\ base = << >>
       /\ ~Occurs(returned, << "get", Current >>)
       /\ pc \in { "get", "abort" }
       /\ pc = "abort" =>
             /\ raised.at = "get"
             /\ raised.j = 1
             /\ raised.exc = "FileNotFoundError"

(* C15: the board patch dumps a specification of exactly one record, the  *)
(* board file below boards/ under the single board name, before the        *)
(* encoder is invoked on it, and boards/ is deleted only by the step that  *)
(* follows the encoder's return.                                           *)

OneRecord ==
    << [data |-> "ath10k/WCN3990/hw1.0/boards/bdwlan.b58",
        names |-> << "bus=snoc,qmi-board-id=ff,qmi-chip-id=30224" >>] >>

Encoded ==
    /\ tools # << >>
    /\ tools[Len(tools)].tool = "ath10k-bdencoder"
    /\ tools[Len(tools)].by = i

C15_BoardSpecThenEncodeThenDelete ==
    /\ [](pc \in { "board_encode", "board_rmtree" } => tmpfile = OneRecord)
    /\ [][tools' # tools /\ tools'[Len(tools')].tool = "ath10k-bdencoder" =>
            /\ tmpfile = OneRecord
            /\ pc = "board_encode"
            /\ pc' = "board_rmtree"
            /\ \A p \in DOMAIN out : p \in DOMAIN out']_vars
    /\ [][(\E p \in DOMAIN out : p \notin DOMAIN out' /\ StartsWith(p, path_boards)) =>
            /\ pc = "board_rmtree"
            /\ Encoded]_vars

C15_Witness ==
    /\ decls = sources
    /\ pc = "patch"
    /\ returned[Len(returned)] = << "apply", 2 >>
    /\ \E k \in DOMAIN tools : tools[k].tool = "ath10k-bdencoder" /\ tools[k].status = 0
    /\ ~Exists(out, path_boards)
    /\ IsFile(out, path_board_out)

(* C16: the step that raises removes nothing from the output tree and     *)
(* changes no path but the one it was itself writing, which keeps what     *)
(* the step wrote; the ended process changes nothing; so after a failure   *)
(* in gather every path a source wrote is still a file holding what was    *)
(* last written there.                                                     *)

Raises == raised.exc = "" /\ raised'.exc # ""

C16_NoRollback ==
    /\ [][Raises =>
            \A p \in DOMAIN out :
                /\ p \in DOMAIN out'
                /\ \/ out'[p] = out[p]
                   \/ \E w \in wrote' \ wrote : w.path = p /\ out'[p] = FileNode(w.data)]_vars
    /\ [][raised.exc # "" => out' = out]_vars
    /\ [](pc = "abort" /\ raised.at \in GatherLabels =>
            \A w \in wrote :
                /\ IsFile(out, w.path)
                /\ \E v \in wrote : v.path = w.path /\ out[w.path].data = v.data)

\* C16 as stated: the step that raises leaves every path of the output
\* tree present with the content it had.
C16_EveryFileKeepsContent ==
    [][Raises => \A p \in DOMAIN out : p \in DOMAIN out' /\ out'[p] = out[p]]_vars

C16_Witness ==
    /\ decls = sources
    /\ pc = "abort"
    /\ raised.at = "get"
    /\ raised.i = 3
    /\ raised.j = 2
    /\ \E w \in wrote : w.by = 3
    /\ \A w \in wrote : IsFile(out, w.path) /\ out[w.path].data = w.data

(* C17: every alias name differs from every name of the fixed list and    *)
(* the alias names differ from each other; no round of the alias patch     *)
(* removes or changes a file of the output tree; and once the patch has    *)
(* returned in a run of the shipped program, the eight originals are files *)
(* of qca/ and each alias is a link to its own original.                   *)

C17_AliasKeepsOriginals ==
    /\ [](pc = "bt_link" =>
            \A k, m \in DOMAIN bt_files :
                /\ Alias(bt_files[k]) # bt_files[m]
                /\ k # m => Alias(bt_files[k]) # Alias(bt_files[m]))
    /\ [][pc = "bt_link" =>
            \A p \in DOMAIN out :
                IsFile(out, p) => p \in DOMAIN out' /\ out'[p] = out[p]]_vars
    /\ [](decls = sources /\ patchlist = patches /\ Occurs(returned, << "apply", 4 >>) =>
            \A k \in DOMAIN bt_files :
                /\ IsFile(out, Join("qca", bt_files[k]))
                /\ out[Join("qca", bt_files[k])].data
                      = FileData(Join(Package("qcbtfmuart8180"), bt_files[k]))
                /\ out[Join("qca", Alias(bt_files[k]))] = LinkNode(bt_files[k]))

C17_Witness ==
    /\ decls = sources
    /\ patchlist = patches
    /\ pc = "done"
    /\ IsFile(out, "qca/crnv21.bin")
    /\ out["qca/crnv01.bin"] = LinkNode("crnv21.bin")
    /\ out["qca/crbtfw01.tlv"] = LinkNode("crbtfw21.tlv")

(* C18: the deletion done by the board patch leaves every path outside    *)
(* boards/ as it was; only the 'wlan/ath10k/board' source writes below     *)
(* boards/; and in a run of the shipped program that reaches DONE the      *)
(* patch's output board-2.bin, firmware-5.bin and every file gathered      *)
(* outside boards/ are files of the output tree.                           *)

UnderBoards(p) == p = path_boards \/ StartsWith(p, path_boards \o "/")

C18_DeletionFrame ==
    /\ [][pc = "board_rmtree" =>
            \A p \in DOMAIN out :
                ~UnderBoards(p) => p \in DOMAIN out' /\ out'[p] = out[p]]_vars
    /\ [](decls = sources =>
            \A w \in wrote :
                UnderBoards(w.path) => registry[w.by].name = "wlan/ath10k/board")

C18_OnlyBoardsDeleted ==
    /\ C18_DeletionFrame
    /\ [](decls = sources /\ patchlist = patches /\ pc = "done" =>
            /\ IsFile(out, path_board_out)
            /\ IsFile(out, path_fw5_bin)
            /\ \A w \in wrote : ~UnderBoards(w.path) => IsFile(out, w.path))

(* C19: every Logger created has a level in 0..2, one of the three        *)
(* prefixes: main has the loggers of level 0 and 1 once it is past its     *)
(* root check, a logger of level 2 is created exactly for a get or an      *)
(* apply, none of level 3 ever is, and no Logger construction fails.       *)

C19_LoggerLevels ==
    /\ \A level \in loggers : level \in 0..2 /\ level + 1 \in DOMAIN log_pfx
    /\ Len(log_pfx) = 3
    /\ raised.exc # "IndexError"
    /\ Phase(pc) \in { "GATHER", "PATCH", "DONE" } \/ raised.at \in GatherLabels \cup PatchLabels
          => { 0, 1 } \subseteq loggers
    /\ 2 \in loggers <=> calls # << >>
    /\ pc = "import" => loggers = {}

C19_Witness ==
    /\ decls = sources
    /\ pc = "done"
    /\ loggers = { 0, 1, 2 }

=============================================================================
